---- MODULE Spec2Model ----
(***************************************************************************)
(* Control loop of the PoE monitor daemon (src/src/main.rs): the fan       *)
(* hysteresis step, the dim-on-timeout latch, the periodic display on/off  *)
(* cycle, the anti-burn-in pixel shift and the gated render, driven by one *)
(* fixed-interval loop.  Time is in whole seconds.  Temperatures are whole *)
(* degrees; the code only compares them with <= and >=.                    *)
(***************************************************************************)
EXTENDS Integers, Sequences, FiniteSets, TLC

\* ---------------------------------------------------------------- bounds
\* The wall clock stops advancing past MaxTime (seconds); the run of the
\* documented scenarios, whose durations are longer, goes on to ScenarioTime.
MaxTime == 300
ScenarioTime == 665
\* Largest extra delay (seconds of I/O latency) one tick may add to the sleep.
MaxLatency == 1

\* ------------------------------------------------------ program constants
\* main.rs:93  let shift_interval = Duration::from_secs(60);
shift_interval == 60
\* main.rs:94  let shift_pattern = [Point::new(0, 0), Point::new(1, 0)];
shift_pattern == << <<0, 0>>, <<1, 0>> >>
\* main.rs:297 (and :294) the temperature a failed sensor read is replaced by
SensorDefault == 0

\* ----------------------------------------------------------- environment
\* Temperatures gather_stats may return: the sensor default and values
\* below, at, between and above the thresholds used below.
Temps == {SensorDefault, 50, 59, 60, 61, 65, 68, 70, 72}

\* One configuration of every kind the loop reads (Config is loaded once,
\* main.rs:45, and never changes), with the latency bound of the host.
MkEnv(ton, toff, timeout, per, on, off, refresh, jit) ==
    [temp_on |-> ton, temp_off |-> toff, display_timeout |-> timeout,
     enable_periodic_off |-> per, periodic_on_duration |-> on,
     periodic_off_duration |-> off, refresh_interval |-> refresh,
     jitter |-> jit]

\* The configuration of the documented example scenarios.
ScenarioEnv == MkEnv(70, 60, 300, TRUE, 600, 60, 5, 0)

\* Threshold pairs, well-formed and malformed, on an otherwise idle display.
FanEnvs ==
    { MkEnv(th[1], th[2], 0, FALSE, 0, 0, 60, 0) :
        th \in { <<70, 60>>, <<60, 60>>, <<60, 70>>, <<61, 59>> } }

\* Display timing configurations, with and without tick latency.
TimingEnvs ==
    { MkEnv(70, 60, timeout, per[1], per[2], per[3], refresh, jit) :
        timeout \in {0, 60, 100},
        per \in { <<FALSE, 60, 40>>, <<TRUE, 60, 40>>, <<TRUE, 0, 0>>,
                  <<TRUE, 50, 0>>, <<TRUE, 0, 50>> },
        refresh \in {25, 30, 60},
        jit \in 0..MaxLatency }

Envs == {ScenarioEnv} \cup FanEnvs \cup TimingEnvs

Horizon(c) == IF c = ScenarioEnv THEN ScenarioTime ELSE MaxTime

\* ------------------------------------------------------------------ state
VARIABLES
    config,                     \* Config + host latency bound (immutable)
    clock,                      \* the wall clock (Instant::now())
    pc,                         \* position of main in its loop
    error,                      \* the error main returned with, or "none"
    now,                        \* main.rs:109
    start_time,                 \* main.rs:106
    last_shift_time,            \* AppState, main.rs:23-30
    shift_index,
    shift_offset,
    last_periodic_toggle_time,
    is_display_periodically_on,
    screen_dimmed,
    is_running,                 \* FanController.is_running
    cpu_temp,                   \* stats.cpu_temp of the current tick
    cmds,                       \* hardware commands that succeeded this tick
    dim_calls,                  \* successful set_brightness(DIMMEST) calls
    prev_shift_time,            \* last_shift_time before its latest reset
    scn,                        \* samples of the example sequence matched
    sensor,                     \* outcome of this tick's temperature read
    last_power                  \* last power command that succeeded

vars == << config, clock, pc, error, now, start_time, last_shift_time,
           shift_index, shift_offset, last_periodic_toggle_time,
           is_display_periodically_on, screen_dimmed, is_running, cpu_temp,
           cmds, dim_calls, prev_shift_time, scn, sensor, last_power >>

app_state == << last_shift_time, shift_index, shift_offset,
                last_periodic_toggle_time, is_display_periodically_on,
                screen_dimmed >>

NoTemp == -1
NoTime == -1

Cmd(op) == [op |-> op, offset |-> <<>>]
\* Mutant of RenderCmd: the render is given the unshifted offset.
RenderCmdUnshifted(off) == [op |-> "Render", offset |-> shift_pattern[1]]

RenderCmd(off) == [op |-> "Render", offset |-> off]

\* The ops of the commands issued so far in this tick.
Ops == { cmds[i].op : i \in 1..Len(cmds) }
CountOp(op) == Cardinality({ i \in 1..Len(cmds) : cmds[i].op = op })

\* Mutant of Fail: the error is recorded and the step is tried again.
FailRetry(msg) ==
    /\ pc' = pc
    /\ error' = msg

\* A `?` that propagates an Err out of main: the process ends.
Fail(msg) ==
    /\ pc' = "failed"
    /\ error' = msg

\* ------------------------------------------------------- FanController
\* fan_controller.rs is not part of the sources at hand: FanController::new
\* starts with is_running = false, fan_on/fan_off write the fan pin and, when
\* the write succeeded, record the commanded state.
fan_on(ok) ==
    IF ok
    THEN /\ is_running' = TRUE
         /\ cmds' = Append(cmds, Cmd("FanOn"))
    ELSE UNCHANGED << is_running, cmds >>

fan_off(ok) ==
    IF ok
    THEN /\ is_running' = FALSE
         /\ cmds' = Append(cmds, Cmd("FanOff"))
    ELSE UNCHANGED << is_running, cmds >>

\* ---------------------------------------------------------------- Init
\* The process after Config::load, PoeDisplay::new and FanController::new
\* (main.rs:45-59), before the loop is set up.
Init ==
    /\ config \in Envs
    /\ clock = 0
    /\ pc = "start"
    /\ error = "none"
    /\ now = 0
    /\ start_time = 0
    /\ last_shift_time = 0
    /\ shift_index = 0
    /\ shift_offset = <<0, 0>>
    /\ last_periodic_toggle_time = 0
    /\ is_display_periodically_on = TRUE
    /\ screen_dimmed = FALSE
    /\ is_running = FALSE
    /\ cpu_temp = NoTemp
    /\ cmds = <<>>
    /\ dim_calls = 0
    /\ prev_shift_time = NoTime
    /\ scn = 0
    /\ sensor = "none"
    /\ last_power = "none"

\* main.rs:88-106: the fan is switched off, then AppState and start_time are
\* taken from the clock.
Startup ==
    /\ pc = "start"
    /\ \E ok \in BOOLEAN :
         /\ fan_off(ok)
         /\ IF ok
            THEN /\ pc' = "loop"
                 /\ error' = error
                 /\ last_shift_time' = clock
                 /\ shift_index' = 0
                 /\ shift_offset' = <<0, 0>>
                 /\ last_periodic_toggle_time' = clock
                 /\ is_display_periodically_on' = TRUE
                 /\ screen_dimmed' = FALSE
                 /\ start_time' = clock
            ELSE /\ Fail("fan_off")
                 /\ UNCHANGED << app_state, start_time >>
    /\ UNCHANGED << config, clock, now, cpu_temp, dim_calls, prev_shift_time,
                    scn,
                    sensor, last_power >>

\* main.rs:108-109: the top of the loop captures `now`.
BeginTick ==
    /\ pc = "loop"
    /\ now' = clock
    /\ cmds' = <<>>
    /\ pc' = "timeout"
    /\ UNCHANGED << config, clock, error, start_time, app_state, is_running,
                    cpu_temp, dim_calls, prev_shift_time, scn,
                    sensor, last_power >>

\* Mutants of ShouldDim: the latch not consulted; the strict comparison.
ShouldDimNoLatch(timeout_duration, dimmed, start, n) ==
    timeout_duration > 0 /\ n - start >= timeout_duration

ShouldDimStrict(timeout_duration, dimmed, start, n) ==
    timeout_duration > 0 /\ ~dimmed /\ n - start > timeout_duration

\* main.rs:158-159: the condition of the dim step.
ShouldDim(timeout_duration, dimmed, start, n) ==
    timeout_duration > 0 /\ ~dimmed /\ n - start >= timeout_duration

\* Mutant of HandleScreenTimeout: the latch is assigned the condition's value
\* on every tick instead of being set once.
HandleScreenTimeoutAssign ==
    /\ pc = "timeout"
    /\ IF ShouldDim(config.display_timeout, screen_dimmed, start_time, now)
       THEN \E ok \in BOOLEAN :
              IF ok
              THEN /\ cmds' = Append(cmds, Cmd("SetBrightness"))
                   /\ dim_calls' = dim_calls + 1
                   /\ screen_dimmed' = TRUE
                   /\ pc' = "periodic"
                   /\ error' = error
              ELSE /\ Fail("Failed to dim display")
                   /\ UNCHANGED << cmds, dim_calls, screen_dimmed >>
       ELSE /\ pc' = "periodic"
            /\ screen_dimmed' = FALSE
            /\ UNCHANGED << cmds, dim_calls, error >>
    /\ UNCHANGED << config, clock, now, start_time, last_shift_time,
                    shift_index, shift_offset, last_periodic_toggle_time,
                    is_display_periodically_on, is_running, cpu_temp,
                    prev_shift_time, scn,
                    sensor, last_power >>

\* Mutant of HandleScreenTimeout: the display is dimmed only while it is
\* periodically on.
HandleScreenTimeoutWhileOn ==
    /\ pc = "timeout"
    /\ IF /\ ShouldDim(config.display_timeout, screen_dimmed, start_time, now)
          /\ is_display_periodically_on
       THEN \E ok \in BOOLEAN :
              IF ok
              THEN /\ cmds' = Append(cmds, Cmd("SetBrightness"))
                   /\ dim_calls' = dim_calls + 1
                   /\ screen_dimmed' = TRUE
                   /\ pc' = "periodic"
                   /\ error' = error
              ELSE /\ Fail("Failed to dim display")
                   /\ UNCHANGED << cmds, dim_calls, screen_dimmed >>
       ELSE /\ pc' = "periodic"
            /\ UNCHANGED << cmds, dim_calls, screen_dimmed, error >>
    /\ UNCHANGED << config, clock, now, start_time, last_shift_time,
                    shift_index, shift_offset, last_periodic_toggle_time,
                    is_display_periodically_on, is_running, cpu_temp,
                    prev_shift_time, scn, sensor, last_power >>

\* Mutant of HandleScreenTimeout: the latch is set before the call, so a
\* failed call leaves it set.
HandleScreenTimeoutLatchFirst ==
    /\ pc = "timeout"
    /\ IF ShouldDim(config.display_timeout, screen_dimmed, start_time, now)
       THEN \E ok \in BOOLEAN :
              IF ok
              THEN /\ cmds' = Append(cmds, Cmd("SetBrightness"))
                   /\ dim_calls' = dim_calls + 1
                   /\ screen_dimmed' = TRUE
                   /\ pc' = "periodic"
                   /\ error' = error
              ELSE /\ Fail("Failed to dim display")
                   /\ screen_dimmed' = TRUE
                   /\ UNCHANGED << cmds, dim_calls >>
       ELSE /\ pc' = "periodic"
            /\ UNCHANGED << cmds, dim_calls, screen_dimmed, error >>
    /\ UNCHANGED << config, clock, now, start_time, last_shift_time,
                    shift_index, shift_offset, last_periodic_toggle_time,
                    is_display_periodically_on, is_running, cpu_temp,
                    prev_shift_time, scn, sensor, last_power >>

\* main.rs:151-167
HandleScreenTimeout ==
    /\ pc = "timeout"
    /\ IF ShouldDim(config.display_timeout, screen_dimmed, start_time, now)
       THEN \E ok \in BOOLEAN :
              IF ok
              THEN /\ cmds' = Append(cmds, Cmd("SetBrightness"))
                   /\ dim_calls' = dim_calls + 1
                   /\ screen_dimmed' = TRUE
                   /\ pc' = "periodic"
                   /\ error' = error
              ELSE /\ Fail("Failed to dim display")
                   /\ UNCHANGED << cmds, dim_calls, screen_dimmed >>
       ELSE /\ pc' = "periodic"
            /\ UNCHANGED << cmds, dim_calls, screen_dimmed, error >>
    /\ UNCHANGED << config, clock, now, start_time, last_shift_time,
                    shift_index, shift_offset, last_periodic_toggle_time,
                    is_display_periodically_on, is_running, cpu_temp,
                    prev_shift_time, scn,
                    sensor, last_power >>

\* Mutants of PeriodicDecision: the two durations swapped; strict
\* comparisons.
PeriodicDecisionSwapped(enabled, on, elapsed, on_duration, off_duration) ==
    IF ~enabled THEN "None"
    ELSE IF on /\ elapsed >= off_duration THEN "PowerOff"
    ELSE IF ~on /\ elapsed >= on_duration THEN "PowerOn"
    ELSE "None"

PeriodicDecisionStrict(enabled, on, elapsed, on_duration, off_duration) ==
    IF ~enabled THEN "None"
    ELSE IF on /\ elapsed > on_duration THEN "PowerOff"
    ELSE IF ~on /\ elapsed > off_duration THEN "PowerOn"
    ELSE "None"

\* Mutant of PeriodicDecision: the second branch tests the flag as the first
\* does, so the display is never switched on again.
PeriodicDecisionNoReturn(enabled, on, elapsed, on_duration, off_duration) ==
    IF ~enabled THEN "None"
    ELSE IF on /\ elapsed >= on_duration THEN "PowerOff"
    ELSE IF on /\ elapsed >= off_duration THEN "PowerOn"
    ELSE "None"

\* Mutant of PeriodicDecision: the enable flag is not consulted.
PeriodicDecisionAlways(enabled, on, elapsed, on_duration, off_duration) ==
    IF on /\ elapsed >= on_duration THEN "PowerOff"
    ELSE IF ~on /\ elapsed >= off_duration THEN "PowerOn"
    ELSE "None"

\* Mutant of PeriodicDecision: the first branch does not test the flag.
PeriodicDecisionRepeat(enabled, on, elapsed, on_duration, off_duration) ==
    IF ~enabled THEN "None"
    ELSE IF elapsed >= on_duration THEN "PowerOff"
    ELSE IF ~on /\ elapsed >= off_duration THEN "PowerOn"
    ELSE "None"

\* main.rs:177-194: which power command the periodic step issues.
PeriodicDecision(enabled, on, elapsed, on_duration, off_duration) ==
    IF ~enabled THEN "None"
    ELSE IF on /\ elapsed >= on_duration THEN "PowerOff"
    ELSE IF ~on /\ elapsed >= off_duration THEN "PowerOn"
    ELSE "None"

\* main.rs:169-197
HandlePeriodicDisplay ==
    /\ pc = "periodic"
    /\ LET d == PeriodicDecision(config.enable_periodic_off,
                                 is_display_periodically_on,
                                 now - last_periodic_toggle_time,
                                 config.periodic_on_duration,
                                 config.periodic_off_duration)
       IN IF d = "None"
          THEN /\ pc' = "shift"
               /\ UNCHANGED << cmds, is_display_periodically_on,
                               last_periodic_toggle_time, error, last_power >>
          ELSE \E ok \in BOOLEAN :
                 IF ok
                 THEN /\ cmds' = Append(cmds, Cmd(d))
                      /\ last_power' = d
                      /\ is_display_periodically_on' = (d = "PowerOn")
                      /\ last_periodic_toggle_time' = now
                      /\ pc' = "shift"
                      /\ error' = error
                 ELSE /\ Fail(IF d = "PowerOff"
                              THEN "Failed periodic display OFF"
                              ELSE "Failed periodic display ON")
                      /\ UNCHANGED << cmds, is_display_periodically_on,
                                      last_periodic_toggle_time, last_power >>
    /\ UNCHANGED << config, clock, now, start_time, last_shift_time,
                    shift_index, shift_offset, screen_dimmed, is_running,
                    cpu_temp, dim_calls, prev_shift_time, scn, sensor >>

\* Mutant of ShiftDue: the strict comparison.
ShiftDueStrict(n, last) == n - last > shift_interval

\* main.rs:205: the condition of the pixel shift.
ShiftDue(n, last) == n - last >= shift_interval

\* Mutant of NextShiftIndex: the modulus is one short, so the index stays 0.
NextShiftIndexShort(i) == (i + 1) % (Len(shift_pattern) - 1)

\* main.rs:206
NextShiftIndex(i) == (i + 1) % Len(shift_pattern)

\* main.rs:199-214
UpdatePixelShift ==
    /\ pc = "shift"
    /\ IF ShiftDue(now, last_shift_time)
       THEN /\ shift_index' = NextShiftIndex(shift_index)
            /\ shift_offset' = shift_pattern[shift_index' + 1]
            /\ last_shift_time' = now
            /\ prev_shift_time' = last_shift_time
       ELSE UNCHANGED << shift_index, shift_offset, last_shift_time,
                         prev_shift_time >>
    /\ pc' = "stats"
    /\ UNCHANGED << config, clock, error, now, start_time,
                    last_periodic_toggle_time, is_display_periodically_on,
                    screen_dimmed, is_running, cpu_temp, cmds, dim_calls, scn,
                    sensor, last_power >>

\* The temperatures of the documented fan example, in order.
ExampleTemps == << 50, 65, 72, 68, 61, 59 >>

\* How many leading samples of this run are the example's (-1: not the
\* example's run).
ExampleStep(s, t) ==
    IF s >= 0 /\ s < Len(ExampleTemps) /\ t = ExampleTemps[s + 1]
    THEN s + 1
    ELSE -1

\* What reading the thermal zone file can give: an I/O error, text that is
\* no number, or a number of millidegrees.
Readings ==
    { [kind |-> "err", milli |-> 0], [kind |-> "garbage", milli |-> 0] }
      \cup { [kind |-> "num", milli |-> t * 1000] : t \in Temps }

\* Mutant of get_cpu_temperature: a failed read yields a sentinel.
get_cpu_temperatureSentinel(r) ==
    IF r.kind = "err" THEN NoTemp
    ELSE IF r.kind = "garbage" THEN SensorDefault \div 1000
    ELSE r.milli \div 1000

\* main.rs:292-300
get_cpu_temperature(r) ==
    IF r.kind = "err" THEN SensorDefault
    ELSE IF r.kind = "garbage" THEN SensorDefault \div 1000
    ELSE r.milli \div 1000

\* main.rs:130, 216-235: the stats sample of the tick.  Only cpu_temp reaches
\* the control decisions.
GatherStats ==
    /\ pc = "stats"
    /\ \E r \in Readings :
         /\ cpu_temp' = get_cpu_temperature(r)
         /\ sensor' = r.kind
         /\ scn' = ExampleStep(scn, cpu_temp')
    /\ pc' = "fan"
    /\ UNCHANGED << config, clock, error, now, start_time, app_state,
                    is_running, cmds, dim_calls, prev_shift_time,
                    last_power >>

\* Mutants of FanDecision: one threshold for both directions; strict
\* comparisons; the running flag ignored.
FanDecisionOneThreshold(running, temp, temp_on, temp_off) ==
    IF running
    THEN IF temp < temp_on THEN "TurnOff" ELSE "None"
    ELSE IF temp >= temp_on THEN "TurnOn" ELSE "None"

FanDecisionStrict(running, temp, temp_on, temp_off) ==
    IF running
    THEN IF temp < temp_off THEN "TurnOff" ELSE "None"
    ELSE IF temp > temp_on THEN "TurnOn" ELSE "None"

FanDecisionStateless(running, temp, temp_on, temp_off) ==
    IF temp <= temp_off THEN "TurnOff"
    ELSE IF temp >= temp_on THEN "TurnOn"
    ELSE "None"

\* main.rs:247-253: the command the fan step issues.
FanDecision(running, temp, temp_on, temp_off) ==
    IF running
    THEN IF temp <= temp_off THEN "TurnOff" ELSE "None"
    ELSE IF temp >= temp_on THEN "TurnOn" ELSE "None"

\* main.rs:132, 237-255
HandleFanControl ==
    /\ pc = "fan"
    /\ LET d == FanDecision(is_running, cpu_temp, config.temp_on,
                            config.temp_off)
       IN IF d = "None"
          THEN /\ pc' = "render"
               /\ UNCHANGED << is_running, cmds, error >>
          ELSE \E ok \in BOOLEAN :
                 /\ IF d = "TurnOff" THEN fan_off(ok) ELSE fan_on(ok)
                 /\ IF ok
                    THEN pc' = "render" /\ error' = error
                    ELSE Fail(IF d = "TurnOff" THEN "fan_off" ELSE "fan_on")
    /\ UNCHANGED << config, clock, now, start_time, app_state, cpu_temp,
                    dim_calls, prev_shift_time, scn,
                    sensor, last_power >>

\* Mutant of ShouldRender: the render is not gated.
ShouldRenderAlways(on, dimmed) == TRUE

\* main.rs:134: the render is gated on the periodic flag alone.
ShouldRender(on, dimmed) == on

\* main.rs:134-145
Render ==
    /\ pc = "render"
    /\ IF ShouldRender(is_display_periodically_on, screen_dimmed)
       THEN \E ok \in BOOLEAN :
              IF ok
              THEN /\ cmds' = Append(cmds, RenderCmd(shift_offset))
                   /\ pc' = "sleep"
                   /\ error' = error
              ELSE /\ Fail("Display update error")
                   /\ cmds' = cmds
       ELSE /\ pc' = "sleep"
            /\ UNCHANGED << cmds, error >>
    /\ UNCHANGED << config, clock, now, start_time, app_state, is_running,
                    cpu_temp, dim_calls, prev_shift_time, scn,
                    sensor, last_power >>

\* main.rs:147-148: thread::sleep(refresh_interval); the next tick starts
\* the nominal interval plus the tick's own latency later.
Sleep ==
    /\ pc = "sleep"
    /\ \E d \in 0..config.jitter :
         /\ clock + config.refresh_interval + d <= Horizon(config)
         /\ clock' = clock + config.refresh_interval + d
    /\ pc' = "loop"
    /\ cpu_temp' = NoTemp
    /\ sensor' = "none"
    /\ UNCHANGED << config, error, now, start_time, app_state, is_running,
                    cmds, dim_calls, prev_shift_time, scn, last_power >>

Next ==
    \/ Startup
    \/ BeginTick
    \/ HandleScreenTimeout
    \/ HandlePeriodicDisplay
    \/ UpdatePixelShift
    \/ GatherStats
    \/ HandleFanControl
    \/ Render
    \/ Sleep

Spec == Init /\ [][Next]_vars

\* ------------------------------------------------------------ fan claims
FanOps == {"FanOn", "FanOff"}

\* This step wrote the fan pin (one more command in the log, a fan command).
FanWritten ==
    /\ Len(cmds') = Len(cmds) + 1
    /\ cmds'[Len(cmds')].op \in FanOps

InDeadBand(t, c) == t > c.temp_off /\ t < c.temp_on

\* C1: with temp_on > temp_off the fan, once running, is switched off only by
\* a fan step whose sample is <= temp_off (and switched on only by one whose
\* sample is >= temp_on); a fan step whose sample lies strictly between the
\* thresholds changes is_running never and writes no fan command.
C1_NoChatter ==
    [][ config.temp_on > config.temp_off =>
          /\ (is_running /\ ~is_running') =>
                (pc = "fan" /\ cpu_temp <= config.temp_off)
          /\ (~is_running /\ is_running') =>
                (pc = "fan" /\ cpu_temp >= config.temp_on)
          /\ (pc = "fan" /\ InDeadBand(cpu_temp, config)) =>
                (is_running' = is_running /\ cmds' = cmds /\ pc' = "render")
      ]_vars

\* The fan runs and the step of a dead-band sample has left it running.
C1_Witness ==
    /\ config.temp_on > config.temp_off
    /\ pc = "render"
    /\ is_running
    /\ InDeadBand(cpu_temp, config)
    /\ Ops \cap FanOps = {}

\* The fan states the documented example expects after each of its samples.
ExampleFan == << FALSE, FALSE, TRUE, TRUE, TRUE, FALSE >>

\* The fan step of the current sample has run and its write did not fail.
FanStepDone ==
    /\ pc \notin {"start", "fan"}
    /\ error \notin {"fan_on", "fan_off"}

\* C2: the fan step follows the decision table: running and sample <=
\* temp_off: fan_off is issued and is_running becomes false; not running and
\* sample >= temp_on: fan_on is issued and is_running becomes true; any other
\* pair: no command, is_running unchanged (a failed write ends the run with
\* that command's error and is_running unchanged).  With 70/60 the samples
\* 50,65,72,68,61,59 from off give off,off,on,on,on,off.
C2_DecisionTable ==
    /\ [][ pc = "fan" =>
             IF is_running /\ cpu_temp <= config.temp_off
             THEN \/ /\ pc' = "render" /\ ~is_running'
                     /\ cmds' = Append(cmds, Cmd("FanOff"))
                  \/ /\ pc' = "failed" /\ error' = "fan_off"
                     /\ is_running' /\ cmds' = cmds
             ELSE IF ~is_running /\ cpu_temp >= config.temp_on
             THEN \/ /\ pc' = "render" /\ is_running'
                     /\ cmds' = Append(cmds, Cmd("FanOn"))
                  \/ /\ pc' = "failed" /\ error' = "fan_on"
                     /\ ~is_running' /\ cmds' = cmds
             ELSE /\ pc' = "render" /\ is_running' = is_running
                  /\ cmds' = cmds
         ]_vars
    /\ [](( /\ config.temp_on = 70 /\ config.temp_off = 60
            /\ scn >= 1 /\ FanStepDone )
           => is_running = ExampleFan[scn])

\* The example has run to its last sample, which switched the fan off.
C2_Witness ==
    /\ config.temp_on = 70 /\ config.temp_off = 60
    /\ scn = Len(ExampleTemps)
    /\ pc = "render"
    /\ ~is_running
    /\ cmds # <<>> /\ cmds[Len(cmds)] = Cmd("FanOff")

\* C3 as stated: over the whole run a fan write happens exactly when
\* is_running changes.
C3_WriteIffTransition ==
    [][ FanWritten <=> (is_running' # is_running) ]_vars

\* C3 amended: inside the loop a fan write happens exactly when is_running
\* changes, one write per change and none on a fan step that decides no
\* command; the one other write is the fan_off at startup, which leaves
\* is_running false.
C3_LoopWriteIffTransition ==
    /\ [][ /\ pc # "start" => (FanWritten <=> (is_running' # is_running))
           /\ (pc = "start" /\ pc' = "loop") =>
                 (cmds' = << Cmd("FanOff") >> /\ ~is_running /\ ~is_running')
           /\ FanWritten => pc \in {"start", "fan"}
           /\ ( pc = "fan"
                /\ FanDecision(is_running, cpu_temp, config.temp_on,
                               config.temp_off) = "None" ) => ~FanWritten
         ]_vars
    /\ [](CountOp("FanOn") + CountOp("FanOff") <= 1)

\* A fan step has switched the fan on with exactly one write.
C3_Witness ==
    /\ pc = "render"
    /\ is_running
    /\ CountOp("FanOn") = 1
    /\ CountOp("FanOff") = 0

\* ------------------------------------------------------------ dim claims
\* C4: screen_dimmed never goes from true to false, so it goes from false to
\* true at most once; the only step that changes it is the dim step.
C4_DimMonotone ==
    [][ /\ screen_dimmed => screen_dimmed'
        /\ (screen_dimmed' # screen_dimmed) => pc = "timeout"
      ]_vars

\* The display was dimmed in an earlier tick and is still dimmed after the
\* periodic cycle has switched it off and the pixels have been shifted.
C4_Witness ==
    /\ screen_dimmed
    /\ now - start_time >= config.display_timeout + config.refresh_interval
    /\ pc = "sleep"
    /\ ~is_display_periodically_on
    /\ prev_shift_time # NoTime

\* The dim step of the tick at `now` has run and its call did not fail.
DimStepDone ==
    /\ pc \notin {"start", "loop", "timeout"}
    /\ error # "Failed to dim display"

\* C5: screen_dimmed holds exactly when one set_brightness(DIMMEST) call has
\* succeeded in the run, and there is never a second; with a timeout of 300 s
\* and ticks every 5 s the tick at 300 s issues the one call, the ticks
\* before it and after it none.
C5_DimOnce ==
    /\ dim_calls = (IF screen_dimmed THEN 1 ELSE 0)
    /\ CountOp("SetBrightness") <= 1
    /\ ( /\ config.display_timeout = 300
         /\ config.refresh_interval = 5
         /\ config.jitter = 0
         /\ DimStepDone )
       => /\ now - start_time = 300 =>
               (CountOp("SetBrightness") = 1 /\ screen_dimmed)
          /\ now - start_time # 300 => CountOp("SetBrightness") = 0
          /\ now - start_time < 300 => dim_calls = 0

\* A tick after the one that dimmed the display, in the 300 s / 5 s run.
C5_Witness ==
    /\ config.display_timeout = 300
    /\ config.refresh_interval = 5
    /\ now - start_time = 305
    /\ pc = "sleep"
    /\ screen_dimmed
    /\ dim_calls = 1
    /\ CountOp("SetBrightness") = 0

\* C6: with a timeout > 0 the display is dimmed by the dim step of the first
\* tick with now - start_time >= timeout (the call succeeding) and by no
\* tick before it; with a zero timeout set_brightness is never called and
\* screen_dimmed stays false.
C6_DimTrigger ==
    /\ config.display_timeout = 0 =>
          (~screen_dimmed /\ dim_calls = 0 /\ "SetBrightness" \notin Ops
           /\ error # "Failed to dim display")
    /\ (screen_dimmed \/ error = "Failed to dim display") =>
          (config.display_timeout > 0
           /\ now - start_time >= config.display_timeout)
    /\ "SetBrightness" \in Ops =>
          (/\ now - start_time >= config.display_timeout
           /\ now - start_time
                < config.display_timeout + config.refresh_interval
                  + config.jitter)
    /\ ( /\ config.display_timeout > 0
         /\ now - start_time >= config.display_timeout
         /\ DimStepDone ) => screen_dimmed

\* The dim step has just latched, in the tick where the timeout is reached.
C6_Witness ==
    /\ config.display_timeout > 0
    /\ now - start_time = config.display_timeout
    /\ pc = "periodic"
    /\ screen_dimmed
    /\ cmds = << Cmd("SetBrightness") >>

\* ------------------------------------------------------- periodic claims
\* The longest time from one tick's `now` to the next one's.
TickMax(c) == c.refresh_interval + c.jitter

PowerOps == {"PowerOff", "PowerOn"}

\* C7: with the periodic cycle enabled, the display has never been on for
\* more than on_duration plus one tick interval since it was switched on, nor
\* off for more than off_duration plus one tick interval since it was
\* switched off (a tick interval being the time from one tick to the next).
C7_CycleBounds ==
    (config.enable_periodic_off /\ pc # "start") =>
       /\ now >= last_periodic_toggle_time
       /\ is_display_periodically_on =>
             now - last_periodic_toggle_time
               <= config.periodic_on_duration + TickMax(config)
       /\ ~is_display_periodically_on =>
             now - last_periodic_toggle_time
               <= config.periodic_off_duration + TickMax(config)

\* The display has been off for longer than off_duration and the periodic
\* step of this tick is about to switch it on.
C7_Witness ==
    /\ config.enable_periodic_off
    /\ config.periodic_off_duration > 0
    /\ pc = "periodic"
    /\ ~is_display_periodically_on
    /\ now - last_periodic_toggle_time > config.periodic_off_duration

\* C8: the periodic step, when enabled: on and elapsed >= on_duration issues
\* PowerOff, clears the flag and sets the toggle time to now; off and elapsed
\* >= off_duration issues PowerOn, sets the flag and sets the toggle time to
\* now (a failed call ends the run with both unchanged); any other tick
\* issues no power command and changes neither.  With on = 600 s, off = 60 s
\* and exact ticks, PowerOff is issued at 600 s and PowerOn at 660 s, and no
\* power command at any other time up to then.
C8_ToggleStep ==
    /\ [][ pc = "periodic" =>
             LET el == now - last_periodic_toggle_time
                 same == /\ is_display_periodically_on'
                            = is_display_periodically_on
                         /\ last_periodic_toggle_time'
                            = last_periodic_toggle_time
                         /\ cmds' = cmds
             IN IF /\ config.enable_periodic_off
                   /\ is_display_periodically_on
                   /\ el >= config.periodic_on_duration
                THEN \/ /\ pc' = "shift"
                        /\ cmds' = Append(cmds, Cmd("PowerOff"))
                        /\ ~is_display_periodically_on'
                        /\ last_periodic_toggle_time' = now
                     \/ pc' = "failed" /\ same
                ELSE IF /\ config.enable_periodic_off
                        /\ ~is_display_periodically_on
                        /\ el >= config.periodic_off_duration
                THEN \/ /\ pc' = "shift"
                        /\ cmds' = Append(cmds, Cmd("PowerOn"))
                        /\ is_display_periodically_on'
                        /\ last_periodic_toggle_time' = now
                     \/ pc' = "failed" /\ same
                ELSE pc' = "shift" /\ same
         ]_vars
    /\ [](( /\ config.enable_periodic_off
            /\ config.periodic_on_duration = 600
            /\ config.periodic_off_duration = 60
            /\ config.refresh_interval = 5
            /\ config.jitter = 0
            /\ pc \in {"shift", "stats", "fan", "render", "sleep"} )
           => /\ now = 600 => Ops \cap PowerOps = {"PowerOff"}
              /\ now = 660 => Ops \cap PowerOps = {"PowerOn"}
              /\ (now < 660 /\ now # 600) => Ops \cap PowerOps = {}
              /\ is_display_periodically_on = (now < 600 \/ now >= 660))

\* The example run has switched the display on again at 660 s.
C8_Witness ==
    /\ config.periodic_on_duration = 600
    /\ config.periodic_off_duration = 60
    /\ config.enable_periodic_off
    /\ now = 660
    /\ pc = "shift"
    /\ cmds[Len(cmds)] = Cmd("PowerOn")
    /\ is_display_periodically_on
    /\ last_periodic_toggle_time = 660

\* ---------------------------------------------------------- shift claims
\* Ticks fall on exact multiples of the shift interval: no latency, and the
\* refresh interval divides 60 s.
ExactTicks(c) == c.jitter = 0 /\ shift_interval % c.refresh_interval = 0

\* The pixel shift alternates between the two offsets, in the shift step only.
ShiftAlternates ==
    /\ shift_offset' \in { <<0, 0>>, <<1, 0>> }
    /\ (shift_offset' # shift_offset) <=> (shift_index' # shift_index)
    /\ (shift_offset' # shift_offset) => pc = "shift"

\* C9 as stated: shift_offset alternates between (0,0) and (1,0) and comes
\* back to the same value after 2 x 60 s = 120 s, whatever the tick interval.
C9_Period120 ==
    [][ /\ ShiftAlternates
        /\ (shift_offset' # shift_offset /\ prev_shift_time # NoTime) =>
              now - prev_shift_time = 2 * shift_interval
      ]_vars

\* C9 amended: shift_offset alternates between (0,0) and (1,0); it changes in
\* the shift step of exactly the ticks with now - last_shift_time >= 60 s,
\* whatever the fan state and the periodic flag are, which is at least 60 s
\* and less than 60 s plus one tick interval after the previous change; so it
\* comes back to the same value after at least 120 s and less than 120 s plus
\* two tick intervals, and after exactly 120 s when the ticks fall on exact
\* multiples of 60 s.
C9_ShiftPeriod ==
    [][ /\ ShiftAlternates
        /\ pc = "shift" =>
              ((shift_offset' # shift_offset)
                 <=> now - last_shift_time >= shift_interval)
        /\ (shift_offset' # shift_offset) =>
              /\ now - last_shift_time >= shift_interval
              /\ now - last_shift_time < shift_interval + TickMax(config)
              /\ ExactTicks(config) => now - last_shift_time = shift_interval
        /\ (shift_offset' # shift_offset /\ prev_shift_time # NoTime) =>
              /\ now - prev_shift_time >= 2 * shift_interval
              /\ now - prev_shift_time
                   < 2 * shift_interval + 2 * TickMax(config)
              /\ ExactTicks(config) =>
                    now - prev_shift_time = 2 * shift_interval
      ]_vars

\* The offset has come back to (0,0), more than 60 s after it left it, in a
\* tick where the display is periodically off and the fan is running.
C9_Witness ==
    /\ pc = "stats"
    /\ shift_offset = <<0, 0>>
    /\ last_shift_time = now
    /\ prev_shift_time # NoTime
    /\ now - prev_shift_time > shift_interval
    /\ ~is_display_periodically_on
    /\ is_running

\* --------------------------------------------------------- render claims
\* C10: a render is issued only in a tick whose periodic flag is on after its
\* periodic step; a tick that comes to its render step with the flag off
\* (the tick of PowerOff included) issues none, and one that comes to it with
\* the flag on (the tick of PowerOn included, dimmed or not) issues exactly
\* one, with the current shift_offset, as its last command.
C10_RenderGating ==
    /\ "Render" \in Ops =>
          (is_display_periodically_on /\ pc \in {"sleep", "loop"})
    /\ error = "Display update error" => is_display_periodically_on
    /\ pc = "sleep" =>
          IF is_display_periodically_on
          THEN /\ CountOp("Render") = 1
               /\ cmds[Len(cmds)] = RenderCmd(shift_offset)
          ELSE CountOp("Render") = 0

\* The tick that issued PowerOff has passed its render step without a render.
C10_Witness ==
    /\ pc = "sleep"
    /\ "PowerOff" \in Ops
    /\ ~is_display_periodically_on
    /\ "Render" \notin Ops

\* ----------------------------------------------------------- error claims
SinkSteps == {"start", "timeout", "periodic", "fan", "render"}

\* C11: a failed sink call ends the run at once: the failing step issues no
\* command and leaves pc at "failed" with the call's error; from there no step
\* of the loop is taken any more, so the rest of the tick is not executed and
\* no display or fan command follows; the run is in the error state exactly
\* when a sink call has failed.
C11_FatalSinkError ==
    /\ [][ /\ pc # "failed"
           /\ error = "none"
           /\ pc' = "failed" =>
                 /\ pc \in SinkSteps
                 /\ error' # "none"
                 /\ cmds' = cmds
                 /\ clock' = clock
           /\ pc' # "failed" => error' = "none"
         ]_vars
    /\ []((pc = "failed") <=> (error # "none"))
    /\ [](pc = "failed" => ~ENABLED Next)

\* A tick that dimmed the display has been ended by a failed fan write, before
\* its render.
C11_Witness ==
    /\ pc = "failed"
    /\ error = "fan_on"
    /\ "SetBrightness" \in Ops
    /\ "Render" \notin Ops
    /\ is_display_periodically_on

BadReads == {"err", "garbage"}

\* C12: a temperature read that fails (or yields no number) is replaced by
\* 0.0 and ends nothing: the stats step always goes on to the fan step, the
\* fan step decides with that 0, the tick renders when the display is
\* periodically on, and the loop sleeps and goes on to the next tick; the
\* run never ends with an error other than a failed sink call's.
C12_SensorNonFatal ==
    /\ [][ /\ pc = "stats" =>
                 /\ pc' = "fan" /\ error' = "none"
                 /\ sensor' \in BadReads => cpu_temp' = SensorDefault
           /\ (pc = "fan" /\ sensor \in BadReads) =>
                 IF is_running /\ SensorDefault <= config.temp_off
                 THEN \/ pc' = "render" /\ ~is_running'
                      \/ pc' = "failed" /\ error' = "fan_off"
                 ELSE IF ~is_running /\ SensorDefault >= config.temp_on
                 THEN \/ pc' = "render" /\ is_running'
                      \/ pc' = "failed" /\ error' = "fan_on"
                 ELSE pc' = "render" /\ is_running' = is_running
           /\ (pc = "render" /\ sensor \in BadReads) =>
                 IF is_display_periodically_on
                 THEN \/ /\ pc' = "sleep"
                         /\ cmds' = Append(cmds, RenderCmd(shift_offset))
                      \/ pc' = "failed" /\ error' = "Display update error"
                 ELSE pc' = "sleep" /\ cmds' = cmds
           /\ (pc = "sleep" /\ sensor \in BadReads) => pc' = "loop"
         ]_vars
    /\ [](sensor \in BadReads => cpu_temp = SensorDefault)
    /\ [](error \in {"none", "fan_on", "fan_off", "Failed to dim display",
                     "Failed periodic display OFF",
                     "Failed periodic display ON", "Display update error"})
    /\ []((pc = "sleep" /\ clock + TickMax(config) <= Horizon(config))
            => ENABLED Sleep)

\* A tick whose temperature read failed has switched the running fan off with
\* the default 0, has rendered, and is about to sleep.
C12_Witness ==
    /\ pc = "sleep"
    /\ sensor = "err"
    /\ cpu_temp = SensorDefault
    /\ "FanOff" \in Ops
    /\ "Render" \in Ops

\* ---------------------------------------------------------- order claims
\* The steps of main in their order; any sink step may end the run instead.
StepOrder ==
    { <<"start", "loop">>, <<"loop", "timeout">>, <<"timeout", "periodic">>,
      <<"periodic", "shift">>, <<"shift", "stats">>, <<"stats", "fan">>,
      <<"fan", "render">>, <<"render", "sleep">>, <<"sleep", "loop">> }
      \cup { <<p, "failed">> : p \in SinkSteps }

\* Where a command stands in a tick.
Rank(op) ==
    CASE op = "SetBrightness" -> 1
      [] op \in PowerOps -> 2
      [] op \in FanOps -> 3
      [] op = "Render" -> 4

\* C13: every tick runs dim, periodic, shift, stats, fan, render, sleep in
\* that order; `now` is captured at the top of the tick only and the clock
\* moves in the sleep only, so all steps of a tick see one `now`; the
\* commands of a tick come in the order set_brightness, power, fan, render;
\* and the render carries the shift_offset and obeys the periodic flag that
\* the earlier steps of the same tick have produced.
C13_TickOrder ==
    /\ [][ /\ <<pc, pc'>> \in StepOrder
           /\ now' # now => (pc = "loop" /\ now' = clock)
           /\ clock' # clock => pc = "sleep"
           /\ cmds' # cmds =>
                 \/ pc = "loop" /\ cmds' = <<>>
                 \/ /\ Len(cmds') = Len(cmds) + 1
                    /\ Rank(cmds'[Len(cmds')].op)
                         = (CASE pc = "timeout" -> 1 [] pc = "periodic" -> 2
                              [] pc \in {"fan", "start"} -> 3
                              [] pc = "render" -> 4)
         ]_vars
    /\ [](\A i, j \in 1..Len(cmds) :
             i < j => Rank(cmds[i].op) < Rank(cmds[j].op))
    /\ [](\A i \in 1..Len(cmds) :
             cmds[i].op = "Render" =>
               (cmds[i].offset = shift_offset /\ is_display_periodically_on))
    /\ [](pc \notin {"start", "loop"} => now = clock)

\* One tick has dimmed the display, switched it on, shifted the pixels,
\* switched the fan on and rendered at the shifted offset.
C13_Witness ==
    /\ pc = "sleep"
    /\ last_shift_time = now
    /\ shift_offset = <<1, 0>>
    /\ cmds = << Cmd("SetBrightness"), Cmd("PowerOn"), Cmd("FanOn"),
                 RenderCmd(<<1, 0>>) >>

\* ------------------------------------------------------- liveness claims
\* The runs with the periodic cycle enabled.
LiveEnvs ==
    { c \in TimingEnvs : c.enable_periodic_off /\ c.display_timeout = 60 }

InitLive == Init /\ config \in LiveEnvs

\* The loop is one thread whose calls return: a step that can be taken is
\* taken.
SpecLive == InitLive /\ [][Next]_vars /\ WF_vars(Next)

\* The phase that began at last_periodic_toggle_time and lasts d seconds ends
\* before the clock of the model stops.
Room(d) == last_periodic_toggle_time + d + TickMax(config) <= Horizon(config)

\* C14: with the periodic cycle enabled, a state with the display off is
\* followed by a PowerOn and the display on, and a state with the display on
\* by a PowerOff and the display off, unless a sink call fails (as far as the
\* clock of the model runs).
C14_PhasesRecur ==
    /\ ( /\ config.enable_periodic_off
         /\ ~is_display_periodically_on
         /\ Room(config.periodic_off_duration) )
       ~> ( \/ is_display_periodically_on /\ last_power = "PowerOn"
            \/ pc = "failed" )
    /\ ( /\ config.enable_periodic_off
         /\ is_display_periodically_on
         /\ Room(config.periodic_on_duration) )
       ~> ( \/ ~is_display_periodically_on /\ last_power = "PowerOff"
            \/ pc = "failed" )

\* The display has been switched off and on again and a further phase is due
\* before the clock stops.
C14_Witness ==
    /\ config.enable_periodic_off
    /\ config.periodic_off_duration > 0
    /\ is_display_periodically_on
    /\ last_power = "PowerOn"
    /\ pc = "sleep"
    /\ Room(config.periodic_on_duration)

\* ------------------------------------------------- malformed thresholds
Malformed(c) == c.temp_on <= c.temp_off

\* C15 as stated: with temp_on <= temp_off every fan step flips is_running
\* and writes the fan pin.
C15_FlipsEveryTick ==
    [][ (Malformed(config) /\ pc = "fan" /\ pc' # "failed") =>
          (is_running' # is_running /\ FanWritten)
      ]_vars

\* C15 amended: with temp_on <= temp_off a fan step flips is_running and
\* writes the fan pin exactly when its sample lies in temp_on..temp_off (or
\* corrects a fan that is on below temp_on, or off above temp_off); a sample
\* below temp_on leaves the fan off and a sample above temp_off leaves it on.
C15_FlipsInBand ==
    [][ (Malformed(config) /\ pc = "fan" /\ pc' # "failed") =>
          /\ (cpu_temp >= config.temp_on /\ cpu_temp <= config.temp_off) =>
                (is_running' # is_running /\ FanWritten)
          /\ cpu_temp < config.temp_on =>
                (~is_running' /\ (FanWritten <=> is_running))
          /\ cpu_temp > config.temp_off =>
                (is_running' /\ (FanWritten <=> ~is_running))
      ]_vars

\* With inverted thresholds a sample inside temp_on..temp_off has switched
\* off the fan that an earlier tick had switched on.
C15_Witness ==
    /\ config.temp_on < config.temp_off
    /\ pc = "render"
    /\ cpu_temp > config.temp_on /\ cpu_temp < config.temp_off
    /\ ~is_running
    /\ cmds = << Cmd("FanOff") >>

\* ----------------------------------------------------------- frame claims
\* C16: the dim step changes neither the periodic flag nor the toggle time
\* and dims on its due tick whether the display is periodically on or off;
\* the periodic step does not change screen_dimmed and toggles whether the
\* display is dimmed or not; neither step changes shift_index, shift_offset,
\* last_shift_time or is_running.
C16_DimPeriodicIndependent ==
    [][ /\ pc = "timeout" =>
              /\ UNCHANGED << is_display_periodically_on,
                              last_periodic_toggle_time, last_power,
                              shift_index, shift_offset, last_shift_time,
                              is_running >>
              /\ ( /\ config.display_timeout > 0
                   /\ ~screen_dimmed
                   /\ now - start_time >= config.display_timeout )
                 => (screen_dimmed' \/ pc' = "failed")
        /\ pc = "periodic" =>
              /\ UNCHANGED << screen_dimmed, dim_calls, shift_index,
                              shift_offset, last_shift_time, is_running >>
              /\ ( /\ config.enable_periodic_off
                   /\ now - last_periodic_toggle_time
                        >= (IF is_display_periodically_on
                            THEN config.periodic_on_duration
                            ELSE config.periodic_off_duration) )
                 => \/ is_display_periodically_on'
                        # is_display_periodically_on
                    \/ pc' = "failed"
      ]_vars

\* One tick has dimmed the display while it was periodically off and has
\* then switched the dimmed display on.
C16_Witness ==
    /\ pc = "shift"
    /\ cmds = << Cmd("SetBrightness"), Cmd("PowerOn") >>
    /\ screen_dimmed
    /\ is_display_periodically_on

\* C17: with the periodic cycle disabled the display is periodically on in
\* every state, no PowerOff or PowerOn is ever issued (nor fails), the toggle
\* time never changes, and every tick that comes to its render step issues a
\* render (which succeeds, or fails and ends the run).
C17_PeriodicDisabled ==
    /\ [](~config.enable_periodic_off =>
             /\ is_display_periodically_on
             /\ last_power = "none"
             /\ Ops \cap PowerOps = {}
             /\ last_periodic_toggle_time = start_time
             /\ error \notin {"Failed periodic display OFF",
                              "Failed periodic display ON"})
    /\ [][ ~config.enable_periodic_off =>
             /\ last_periodic_toggle_time' = last_periodic_toggle_time
             /\ pc = "render" =>
                   \/ /\ pc' = "sleep"
                      /\ cmds' = Append(cmds, RenderCmd(shift_offset))
                   \/ pc' = "failed" /\ error' = "Display update error"
         ]_vars

\* With the cycle disabled a tick has rendered after the display has been on
\* for longer than the configured on duration.
C17_Witness ==
    /\ ~config.enable_periodic_off
    /\ config.periodic_on_duration > 0
    /\ now - last_periodic_toggle_time > config.periodic_on_duration
    /\ pc = "sleep"
    /\ cmds[Len(cmds)] = RenderCmd(shift_offset)

\* This step issued a power command that succeeded.
PowerIssued ==
    /\ Len(cmds') = Len(cmds) + 1
    /\ cmds'[Len(cmds')].op \in PowerOps

\* C18: for all durations, zero included: a tick issues at most one power
\* command; the first power command of a run is PowerOff, the command after a
\* PowerOff is a PowerOn and the command after a PowerOn is a PowerOff; and
\* the display is periodically off exactly when the last power command that
\* succeeded was PowerOff.
C18_PowerAlternates ==
    /\ [](CountOp("PowerOff") + CountOp("PowerOn") <= 1)
    /\ [](~is_display_periodically_on <=> last_power = "PowerOff")
    /\ [][ /\ PowerIssued <=> last_power' # last_power
           /\ PowerIssued =>
                 /\ pc = "periodic"
                 /\ last_power' = cmds'[Len(cmds')].op
                 /\ last_power' =
                      (IF last_power = "PowerOff" THEN "PowerOn"
                       ELSE "PowerOff")
         ]_vars

\* With both durations zero a tick has issued PowerOn alone, after the
\* PowerOff of an earlier tick.
C18_Witness ==
    /\ config.enable_periodic_off
    /\ config.periodic_on_duration = 0
    /\ config.periodic_off_duration = 0
    /\ pc = "sleep"
    /\ last_power = "PowerOn"
    /\ Ops \cap PowerOps = {"PowerOn"}

\* C19: a failing sink call changes no state: after a failed set_brightness
\* screen_dimmed is still false, after a failed PowerOff or PowerOn the
\* periodic flag and the toggle time are what they were, the step ends the run
\* with that call's error, and at the end the flags say only what commands
\* that succeeded have done.
C19_FailureKeepsState ==
    /\ [][ pc' = "failed" =>
             /\ UNCHANGED << app_state, dim_calls, last_power, cmds >>
             /\ pc = "timeout" =>
                   (error' = "Failed to dim display" /\ ~screen_dimmed')
             /\ pc = "periodic" =>
                   error' = (IF is_display_periodically_on
                             THEN "Failed periodic display OFF"
                             ELSE "Failed periodic display ON")
         ]_vars
    /\ [](pc = "failed" =>
             /\ screen_dimmed <=> dim_calls = 1
             /\ ~is_display_periodically_on <=> last_power = "PowerOff"
             /\ error = "Failed to dim display" => ~screen_dimmed
             /\ error = "Failed periodic display OFF" =>
                   is_display_periodically_on
             /\ error = "Failed periodic display ON" =>
                   (~is_display_periodically_on
                    /\ last_periodic_toggle_time < now))

\* A PowerOn that was due has failed: the display is still recorded as off,
\* with the toggle time of the PowerOff.
C19_Witness ==
    /\ pc = "failed"
    /\ error = "Failed periodic display ON"
    /\ ~is_display_periodically_on
    /\ last_power = "PowerOff"
    /\ config.periodic_off_duration > 0
    /\ now - last_periodic_toggle_time >= config.periodic_off_duration

\* C20: shift_offset is always shift_pattern[shift_index]; shift_index
\* changes only in the shift step of a tick with now - last_shift_time >= 60 s
\* and then advances by one modulo 2, once per tick, with last_shift_time
\* reset to that tick's `now`; so two consecutive changes are at least 60 s
\* and at most 60 s plus one tick interval apart.
C20_ShiftSpacing ==
    /\ [](/\ shift_index \in 0..(Len(shift_pattern) - 1)
          /\ shift_offset = shift_pattern[shift_index + 1]
          /\ last_shift_time <= now)
    /\ [][ /\ (pc = "shift" /\ now - last_shift_time >= shift_interval) =>
                 /\ shift_index' = (shift_index + 1) % 2
                 /\ last_shift_time' = now
           /\ (pc = "shift" /\ now - last_shift_time < shift_interval) =>
                 UNCHANGED << shift_index, last_shift_time >>
           /\ pc \notin {"shift", "start"} =>
                 UNCHANGED << shift_index, last_shift_time >>
           /\ shift_index' # shift_index =>
                 /\ now - last_shift_time >= shift_interval
                 /\ now - last_shift_time
                      <= shift_interval + TickMax(config)
         ]_vars

\* The index has changed a second time, more than 60 s after the first.
C20_Witness ==
    /\ pc = "stats"
    /\ last_shift_time = now
    /\ prev_shift_time > start_time
    /\ now - prev_shift_time > shift_interval
    /\ shift_index = 0

====
